---- MODULE Spec2Model ----
(***************************************************************************)
(* A model of keriox's event-stream parser and validator                   *)
(* (src/src/event_message/parse.rs), the interaction event semantics       *)
(* (src/src/event/event_data/interaction.rs) and the state evolver and     *)
(* key-config verification they call.                                      *)
(*                                                                         *)
(* A byte stream is abstracted to a sequence of tokens: an event frame     *)
(* (the bytes of one serialized EventMessage), a signature count code, an  *)
(* attached signature, a receipt couplet, or bytes no parser recognises.   *)
(* A frame's bytes are a triple (codec, pad, body): the dialect they are   *)
(* written in, the number of insignificant bytes (whitespace a JSON        *)
(* parser skips) and the event message they encode.                        *)
(***************************************************************************)
EXTENDS Integers, Sequences, FiniteSets, TLC

\* Bound: the number of <frame><attachment> units of an input stream.
MaxUnits == 3

(***************************************************************************)
(* Primitives                                                              *)
(***************************************************************************)

\* A self-addressing prefix: the digest of a payload, tagged with its code.
Digest(payload) == [code |-> "E", of |-> payload]

\* A basic prefix: a public key carried inline.
Basic(key) == [code |-> "D", key |-> key]

\* The digest no event carries (the default state's last-event digest).
NoDigest == [code |-> "E", of |-> [none |-> TRUE]]

\* The prefix of the default (uninitialised) state.
NoPrefix == [code |-> "none"]

\* The next-keys commitment: digest(concat(encode(k_i) for k_i in keys)).
DigestKeys(keys) == Digest([keys |-> keys])

\* Length of the canonical encoding of an event message: the 17-byte version
\* string plus its fields (the size digits have a fixed width, so the length
\* does not depend on the size the version string declares).
CanonLen(ev) == 17 + 10 * Cardinality(DOMAIN ev \ {"v"})

\* Number of bytes of a frame.
ByteLen(raw) == CanonLen(raw.body) + raw.pad

\* A deserialization that loses the anchored seals.
Deserialize_unsealed(raw) ==
  IF "a" \in DOMAIN raw.body THEN [raw.body EXCEPT !.a = <<>>] ELSE raw.body

\* Deserialization of a frame's bytes: the event message; insignificant
\* bytes are dropped.
Deserialize(raw) == raw.body

\* EventMessage::serialize: the canonical bytes of the message in the dialect
\* its version string names, with the size the version string holds.
Serialize(ev) == [codec |-> ev.v.kind, pad |-> 0, body |-> ev]

(***************************************************************************)
(* IdentifierState                                                         *)
(***************************************************************************)

\* IdentifierState::default()
DefaultState ==
  [prefix |-> NoPrefix, sn |-> 0, last |-> NoDigest,
   current |-> [keys |-> <<>>, threshold |-> 0, next |-> NoDigest],
   witnesses |-> <<>>, wt |-> 0, delegator |-> NoPrefix, traits |-> <<>>]

Ok(st) == [ok |-> TRUE, state |-> st]
Fail(kind) == [ok |-> FALSE, err |-> kind]

SeqToSet(q) == {q[j] : j \in 1..Len(q)}

RECURSIVE Without(_, _)
\* q without the elements of the set gone, order preserved.
Without(q, gone) ==
  IF q = <<>> THEN <<>>
  ELSE IF Head(q) \in gone THEN Without(Tail(q), gone)
  ELSE <<Head(q)>> \o Without(Tail(q), gone)

NoDup(q) == Cardinality(SeqToSet(q)) = Len(q)

\* The data an inception's self-addressing identifier commits to.
InceptionData(ev) ==
  [kt |-> ev.kt, k |-> ev.k, n |-> ev.n, wt |-> ev.wt, w |-> ev.w, c |-> ev.c]

\* Identifier rule of an inception: a basic prefix is the single signing key,
\* a self-addressing prefix is the digest of the inception data.
IdentifierBinds(ev) ==
  \/ ev.i.code = "D" /\ Len(ev.k) = 1 /\ ev.i = Basic(ev.k[1])
  \/ ev.i.code = "E" /\ ev.i = Digest(InceptionData(ev))

\* InceptionEvent::apply_to: the fields an inception sets.
InceptionEvent_apply_to(ev, st) ==
  Ok([st EXCEPT !.current = [keys |-> ev.k, threshold |-> ev.kt, next |-> ev.n],
                !.witnesses = ev.w, !.wt = ev.wt, !.traits = ev.c])

\* A rotation that takes the new keys without looking at the commitment.
RotationEvent_apply_unchecked(ev, st) ==
  Ok([st EXCEPT !.current = [keys |-> ev.k, threshold |-> ev.kt, next |-> ev.n],
                !.witnesses = Without(st.witnesses, SeqToSet(ev.wr)) \o ev.wa,
                !.wt = ev.wt])

\* RotationEvent::apply_to: the next-keys commitment, then the new key
\* config; witnesses are removed (wr), then added (wa), order preserved.
RotationEvent_apply_to(ev, st) ==
  IF DigestKeys(ev.k) # st.current.next THEN Fail("NextKeysMismatch")
  ELSE IF \/ ~ (SeqToSet(ev.wr) \subseteq SeqToSet(st.witnesses))
          \/ ~ NoDup(ev.wr) \/ ~ NoDup(ev.wa)
          \/ SeqToSet(ev.wa) \cap (SeqToSet(st.witnesses) \ SeqToSet(ev.wr)) # {}
       THEN Fail("SemanticError")
  ELSE Ok([st EXCEPT !.current = [keys |-> ev.k, threshold |-> ev.kt, next |-> ev.n],
                     !.witnesses = Without(st.witnesses, SeqToSet(ev.wr)) \o ev.wa,
                     !.wt = ev.wt])

\* An interaction that rebuilds the state from the default one and forgets
\* the witnesses.
InteractionEvent_apply_forgets(ev, st) ==
  Ok([st EXCEPT !.witnesses = DefaultState.witnesses, !.wt = DefaultState.wt])

\* InteractionEvent::apply_to: Ok(IdentifierState { ..state }).
InteractionEvent_apply_to(ev, st) == Ok(st)

\* The delegator seal an event without one carries.
NoSeal == [i |-> NoPrefix]

\* An evolver that does not look at whether the identifier already has a
\* state: an inception starts the log over, any other event is chained to
\* whatever state it is given.
apply_stateless(st, ev) ==
  LET adv == [st EXCEPT !.sn = ev.s, !.last = Digest(Serialize(ev))]
  IN  IF ev.t \in {"icp", "dip"} THEN
        IF ev.s # 0 THEN Fail("OutOfOrder")
        ELSE IF ~ IdentifierBinds(ev) THEN Fail("WrongIdentifier")
        ELSE InceptionEvent_apply_to(ev, [adv EXCEPT !.prefix = ev.i])
      ELSE IF ev.t = "ixn" THEN InteractionEvent_apply_to(ev, adv)
      ELSE IF ev.t \in {"rot", "drt"} THEN
        RotationEvent_apply_unchecked(ev, [adv EXCEPT !.prefix = ev.i])
      ELSE Fail("SemanticError")

\* IdentifierState::apply(event): the precondition matrix of the state
\* evolver, then the variant's own apply_to on the state with the sequence
\* number and the last-event digest advanced. The evolver is handed the
\* parsed EventMessage only, so the digest is taken over its serialization.
apply(st, ev) ==
  LET absent == st.prefix = NoPrefix
      adv == [st EXCEPT !.sn = ev.s, !.last = Digest(Serialize(ev))]
  IN  IF ev.t \in {"icp", "dip"} THEN
        IF ~ absent THEN Fail("OutOfOrder")
        ELSE IF ev.s # 0 THEN Fail("OutOfOrder")
        ELSE IF ~ IdentifierBinds(ev) THEN Fail("WrongIdentifier")
        ELSE IF ev.t = "icp"
          THEN InceptionEvent_apply_to(ev, [adv EXCEPT !.prefix = ev.i])
        ELSE IF ev.da = NoSeal THEN Fail("MissingDelegator")
        ELSE InceptionEvent_apply_to(
               ev, [adv EXCEPT !.prefix = ev.i, !.delegator = ev.da.i])
      ELSE IF ev.t \in {"rot", "drt", "ixn"} THEN
        IF absent THEN Fail("OutOfOrder")
        ELSE IF ev.s # st.sn + 1 THEN Fail("OutOfOrder")
        ELSE IF ev.p # st.last THEN Fail("BadPriorDigest")
        ELSE IF ev.i # st.prefix THEN Fail("WrongIdentifier")
        ELSE IF ev.t = "ixn" THEN InteractionEvent_apply_to(ev, adv)
        ELSE IF ev.t = "rot" THEN RotationEvent_apply_to(ev, adv)
        ELSE IF st.delegator = NoPrefix \/ ev.da.i # st.delegator
          THEN Fail("MissingDelegator")
        ELSE RotationEvent_apply_to(ev, adv)
      ELSE Fail("SemanticError")

\* One attached signature verifies: its index selects a key of the config and
\* it was made with that key over exactly these bytes.
SigValid(kc, raw, sg) ==
  /\ sg.index < Len(kc.keys)
  /\ sg.by = kc.keys[sg.index + 1]
  /\ sg.over = raw

\* The key indices for which a valid signature is attached (duplicate
\* indices collapse).
ValidIndices(kc, raw, sigs) ==
  {sigs[j].index : j \in {x \in 1..Len(sigs) : SigValid(kc, raw, sigs[x])}}

\* KeyConfig::verify(raw, signatures) -> Result<bool, Error>: the count of
\* distinct valid signatures must meet the threshold.
verify(kc, raw, sigs) ==
  IF Cardinality(ValidIndices(kc, raw, sigs)) >= kc.threshold
    THEN [ok |-> TRUE, val |-> TRUE]
  ELSE IF \E j \in 1..Len(sigs) : ~ SigValid(kc, raw, sigs[j])
    THEN Fail("SignatureInvalid")
  ELSE [ok |-> TRUE, val |-> FALSE]

(***************************************************************************)
(* Parsers (nom): a result is Ok(rest, out), a recoverable Error or an     *)
(* unrecoverable Failure.                                                  *)
(***************************************************************************)

POk(rest, out) == [res |-> "Ok", rest |-> rest, out |-> out]
PError(code) == [res |-> "Error", code |-> code]
PFailure(code) == [res |-> "Failure", code |-> code]

\* A framer that trusts the version string: the frame it returns is as long
\* as the frame declares.
codec_message_declared(codec, s) ==
  IF s # <<>> /\ Head(s).tok = "frame" /\ Head(s).raw.codec = codec
    THEN LET raw == [Head(s).raw EXCEPT
                       !.pad = Head(s).raw.body.v.size - CanonLen(Head(s).raw.body)]
         IN  POk(Tail(s), [event |-> Deserialize(raw), raw |-> raw])
    ELSE PError("IsNot")

\* One codec's parser: the frame at the head of the input, if it is written
\* in that codec; raw is the consumed prefix, whatever size it declares.
codec_message(codec, s) ==
  IF s # <<>> /\ Head(s).tok = "frame" /\ Head(s).raw.codec = codec
    THEN POk(Tail(s), [event |-> Deserialize(Head(s).raw), raw |-> Head(s).raw])
    ELSE PError("IsNot")

json_message(s) == codec_message("JSON", s)
cbor_message(s) == codec_message("CBOR", s)
mgpk_message(s) == codec_message("MGPK", s)

\* alt((json_message, cbor_message, mgpk_message))
message(s) ==
  IF json_message(s).res = "Ok" THEN json_message(s)
  ELSE IF cbor_message(s).res = "Ok" THEN cbor_message(s)
  ELSE mgpk_message(s)

\* A sig_count for which a code that is not "-A" is unrecoverable.
sig_count_strict(s) ==
  IF s = <<>> \/ Head(s).tok # "count" THEN PError("Eof")
  ELSE IF Head(s).code # "-A" \/ Head(s).n < 0 THEN PFailure("IsNot")
  ELSE POk(Tail(s), Head(s).n)

\* The count of a count code: "-A" then two base64 digits. A code that is
\* not "-A" is an Error, digits that are not base64 a Failure.
sig_count(s) ==
  IF s = <<>> \/ Head(s).tok # "count" THEN PError("Eof")
  ELSE IF Head(s).code # "-A" THEN PError("Tag")
  ELSE IF Head(s).n < 0 THEN PFailure("IsNot")
  ELSE POk(Tail(s), Head(s).n)

RECURSIVE count(_, _, _)
\* count(parser, n): n elements of the given kind, or an Error.
count(kind, n, s) ==
  IF n = 0 THEN POk(s, <<>>)
  ELSE IF s = <<>> \/ Head(s).tok # kind THEN PError("Count")
  ELSE LET r == count(kind, n - 1, Tail(s))
       IN  IF r.res = "Ok" THEN POk(r.rest, <<Head(s)>> \o r.out) ELSE r

signatures(s) ==
  LET c == sig_count(s)
  IN  IF c.res = "Ok" THEN count("sig", c.out, c.rest) ELSE c

couplets(s) ==
  LET c == sig_count(s)
  IN  IF c.res = "Ok" THEN count("couplet", c.out, c.rest) ELSE c

\* A signed_message that reads attached signatures after every frame and
\* yields an event.
signed_message_plain(s) ==
  LET m == message(s)
      a == signatures(m.rest)
  IN  IF m.res # "Ok" THEN m
      ELSE IF a.res # "Ok" THEN a
      ELSE POk(a.rest, [kind |-> "Event", event |-> m.out, signatures |-> a.out])

\* signed_message: a frame, then the attachment its event type calls for.
signed_message(s) ==
  LET m == message(s)
  IN  IF m.res # "Ok" THEN m
      ELSE IF m.out.event.t = "rct" THEN
        LET a == couplets(m.rest)
        IN  IF a.res # "Ok" THEN a
            ELSE POk(a.rest, [kind |-> "Rct", body |-> m.out.event,
                              couplets |-> a.out])
      ELSE IF m.out.event.t = "vrc" THEN
        LET a == signatures(m.rest)
        IN  IF a.res # "Ok" THEN a
            ELSE POk(a.rest, [kind |-> "Vrc", event_message |-> m.out.event,
                              signatures |-> a.out])
      ELSE
        LET a == signatures(m.rest)
        IN  IF a.res # "Ok" THEN a
            ELSE POk(a.rest, [kind |-> "Event", event |-> m.out,
                              signatures |-> a.out])

(***************************************************************************)
(* Input streams: event messages as the test vectors of parse.rs write     *)
(* them, chained into streams of at most MaxUnits units.                   *)
(***************************************************************************)

Codecs == {"JSON", "CBOR", "MGPK"}

V(codec) == [kind |-> codec, size |-> 0]

Icp(codec, i, s, kt, k, n, wt, w, c) ==
  [v |-> V(codec), i |-> i, s |-> s, t |-> "icp", kt |-> kt, k |-> k, n |-> n,
   wt |-> wt, w |-> w, c |-> c]

Dip(codec, i, s, kt, k, n, wt, w, c, da) ==
  [v |-> V(codec), i |-> i, s |-> s, t |-> "dip", kt |-> kt, k |-> k, n |-> n,
   wt |-> wt, w |-> w, c |-> c, da |-> da]

Rot(codec, t, i, s, p, kt, k, n) ==
  [v |-> V(codec), i |-> i, s |-> s, t |-> t, p |-> p, kt |-> kt, k |-> k,
   n |-> n, wt |-> 0, wr |-> <<>>, wa |-> <<>>, a |-> <<>>]

Drt(codec, i, s, p, kt, k, n, da) ==
  [v |-> V(codec), i |-> i, s |-> s, t |-> "drt", p |-> p, kt |-> kt, k |-> k,
   n |-> n, wt |-> 0, wr |-> <<>>, wa |-> <<>>, a |-> <<>>, da |-> da]

Ixn(codec, i, s, p, a) ==
  [v |-> V(codec), i |-> i, s |-> s, t |-> "ixn", p |-> p, a |-> a]

\* A receipt of the event of identifier i at sequence number s with digest d.
Receipt(codec, t, i, s, d) ==
  [v |-> V(codec), i |-> i, s |-> s, t |-> t, d |-> d]

\* The bytes of ev with pad insignificant bytes, its version string declaring
\* the actual length plus off.
Raw(ev, pad, off) ==
  [codec |-> ev.v.kind, pad |-> pad,
   body |-> [ev EXCEPT !.v.size = CanonLen(ev) + pad + off]]

FrameTok(raw) == [tok |-> "frame", raw |-> raw]
CountTok(code, n) == [tok |-> "count", code |-> code, n |-> n]
Sig(index, by, over) == [tok |-> "sig", index |-> index, by |-> by, over |-> over]
Couplet(key, by, over) == [tok |-> "couplet", key |-> key, by |-> by, over |-> over]
Junk == [tok |-> "junk"]

\* A frame followed by a count code and the counted elements.
Unit(raw, elems) == <<FrameTok(raw), CountTok("-A", Len(elems))>> \o elems

\* Signatures over raw by the first kt keys of the list.
GoodSigs(keys, kt, raw) == [j \in 1..kt |-> Sig(j - 1, keys[j], raw)]

\* The pre-rotated key that follows a key list.
NextKeys(keys) == <<(keys[1] % 3) + 1>>

BadDigest == Digest([bad |-> TRUE])
DelegatorSeal == [i |-> Basic(3), s |-> 1]
AnchorSeal == [i |-> Basic(3), s |-> 0, d |-> Digest([anchored |-> TRUE])]

IcpBasic(codec, s, key) ==
  Icp(codec, Basic(key), s, 1, <<1>>, DigestKeys(<<2>>), 0, <<>>, <<>>)

IcpMulti ==
  LET e == Icp("JSON", NoPrefix, 0, 2, <<1, 2, 3>>, DigestKeys(<<2>>), 1,
               <<"W1">>, <<"EO">>)
  IN  [e EXCEPT !.i = Digest(InceptionData(e))]

DipBasic ==
  LET e == Dip("JSON", NoPrefix, 0, 1, <<1>>, DigestKeys(<<2>>), 0, <<>>,
               <<"DND">>, DelegatorSeal)
  IN  [e EXCEPT !.i = Digest(InceptionData(e))]

\* The chain a stream has built so far: the last well-formed key event and the
\* keys it left in force and pre-rotated. mode is "open" while every key event
\* so far was well-formed, "failed" after one that was not, "ended" after a
\* unit the parsers stop at.
NoChain ==
  [mode |-> "open", est |-> FALSE, i |-> NoPrefix, sn |-> 0,
   prev |-> Raw(IcpBasic("JSON", 0, 1), 0, 0),
   keys |-> <<1>>, kt |-> 1, nxt |-> <<2>>, deleg |-> NoPrefix]

Established(raw, nxt, deleg) ==
  [mode |-> "open", est |-> TRUE, i |-> raw.body.i, sn |-> raw.body.s,
   prev |-> raw, keys |-> raw.body.k, kt |-> raw.body.kt, nxt |-> nxt,
   deleg |-> deleg]

Advanced(ch, raw) == [ch EXCEPT !.sn = raw.body.s, !.prev = raw]
Failed(ch) == [ch EXCEPT !.mode = "failed"]
Ended(ch) == [ch EXCEPT !.mode = "ended"]

Opt(toks, ch) == [toks |-> toks, ch |-> ch]

\* Inceptions: each codec, a padded frame, a frame declaring a wrong size, a
\* wrong signer, a wrong sequence number, a wrong identifier; a 2-of-3
\* inception with several signature sets; a delegated inception.
InceptionUnits(ch) ==
  LET b == Raw(IcpBasic("JSON", 0, 1), 0, 0)
      m == Raw(IcpMulti, 0, 0)
      d == Raw(DipBasic, 0, 0)
      badsn == Raw(IcpBasic("JSON", 1, 1), 0, 0)
      badid == Raw(IcpBasic("JSON", 0, 2), 0, 0)
  IN  {Opt(Unit(r, GoodSigs(<<1>>, 1, r)), Established(r, <<2>>, NoPrefix)) :
         r \in {Raw(IcpBasic(c, 0, 1), 0, 0) : c \in Codecs}
               \cup {Raw(IcpBasic("JSON", 0, 1), 1, 0),
                     Raw(IcpBasic("JSON", 0, 1), 0, 1)}}
      \cup {Opt(Unit(b, <<Sig(0, 2, b)>>), Failed(ch)),
            Opt(Unit(badsn, GoodSigs(<<1>>, 1, badsn)), Failed(ch)),
            Opt(Unit(badid, GoodSigs(<<1>>, 1, badid)), Failed(ch)),
            Opt(Unit(d, GoodSigs(<<1>>, 1, d)),
                Established(d, <<2>>, DelegatorSeal.i))}
      \cup {Opt(Unit(m, g), Established(m, <<2>>, NoPrefix)) :
              g \in {GoodSigs(<<1, 2, 3>>, 3, m), <<Sig(0, 1, m), Sig(2, 3, m)>>}}
      \cup {Opt(Unit(m, g), Failed(ch)) :
              g \in {<<Sig(1, 2, m)>>, <<Sig(0, 1, m), Sig(0, 1, m)>>,
                     <<Sig(0, 1, m), Sig(1, 3, m)>>}}

\* An inception and a delegated inception that arrive after the identifier
\* is established.
LateInceptionUnits(ch) ==
  LET b == Raw(IcpBasic("JSON", 0, 1), 0, 0)
      d == Raw(DipBasic, 0, 0)
  IN  {Opt(Unit(r, GoodSigs(<<1>>, 1, r)), Failed(ch)) : r \in {b, d}}

\* Rotations of an established chain: the committed keys signing for
\* themselves, the old keys signing, a gap in the sequence numbers, a wrong
\* prior digest, keys that were not committed; delegated likewise.
RotationUnits(ch) ==
  LET mk(s, p, k) ==
        IF ch.deleg = NoPrefix
          THEN Raw(Rot("JSON", "rot", ch.i, s, p, 1, k, DigestKeys(NextKeys(k))), 0, 0)
          ELSE Raw(Drt("JSON", ch.i, s, p, 1, k, DigestKeys(NextKeys(k)),
                       [i |-> ch.deleg, s |-> 2]), 0, 0)
      last == Digest(Serialize(Deserialize(ch.prev)))
      good == mk(ch.sn + 1, last, ch.nxt)
      byraw == mk(ch.sn + 1, Digest(ch.prev), ch.nxt)
      gap == mk(ch.sn + 2, last, ch.nxt)
      badp == mk(ch.sn + 1, BadDigest, ch.nxt)
      badk == mk(ch.sn + 1, last, NextKeys(ch.nxt))
      rotated(raw) == [Advanced(ch, raw) EXCEPT !.keys = ch.nxt, !.kt = 1,
                                               !.nxt = NextKeys(ch.nxt)]
  IN  {Opt(Unit(good, GoodSigs(ch.nxt, 1, good)), rotated(good)),
       Opt(Unit(byraw, GoodSigs(ch.nxt, 1, byraw)),
           IF byraw = good THEN rotated(good) ELSE Failed(ch)),
       Opt(Unit(good, GoodSigs(ch.keys, ch.kt, good)), Failed(ch)),
       Opt(Unit(gap, GoodSigs(ch.nxt, 1, gap)), Failed(ch)),
       Opt(Unit(badp, GoodSigs(ch.nxt, 1, badp)), Failed(ch)),
       Opt(Unit(badk, GoodSigs(NextKeys(ch.nxt), 1, badk)), Failed(ch))}

\* Interactions of an established chain, with and without a seal; a gap, a
\* wrong prior digest, a wrong signer.
InteractionUnits(ch) ==
  LET mk(s, p, a) == Raw(Ixn("JSON", ch.i, s, p, a), 0, 0)
      last == Digest(Serialize(Deserialize(ch.prev)))
      good == mk(ch.sn + 1, last, <<>>)
      seal == mk(ch.sn + 1, last, <<AnchorSeal>>)
      byraw == mk(ch.sn + 1, Digest(ch.prev), <<>>)
      gap == mk(ch.sn + 2, last, <<>>)
      badp == mk(ch.sn + 1, BadDigest, <<AnchorSeal>>)
  IN  {Opt(Unit(r, GoodSigs(ch.keys, ch.kt, r)), Advanced(ch, r)) : r \in {good, seal}}
      \cup {Opt(Unit(byraw, GoodSigs(ch.keys, ch.kt, byraw)),
                IF byraw = good THEN Advanced(ch, good) ELSE Failed(ch)),
            Opt(Unit(gap, GoodSigs(ch.keys, ch.kt, gap)), Failed(ch)),
            Opt(Unit(badp, GoodSigs(ch.keys, ch.kt, badp)), Failed(ch)),
            Opt(Unit(good, <<Sig(0, ch.nxt[1], good)>>), Failed(ch))}

\* Receipts of the chain's last event: a witness couplet that verifies and one
\* that does not, and a validator's attached signature.
ReceiptUnits(ch) ==
  LET rct == Raw(Receipt("JSON", "rct", ch.prev.body.i, ch.prev.body.s,
                         Digest(ch.prev)), 0, 0)
      vrc == Raw(Receipt("JSON", "vrc", ch.prev.body.i, ch.prev.body.s,
                         Digest(ch.prev)), 0, 0)
  IN  {Opt(Unit(rct, <<Couplet(3, 3, ch.prev)>>), ch),
       Opt(Unit(rct, <<Couplet(3, 2, ch.prev)>>), ch),
       Opt(Unit(vrc, <<Sig(0, 3, ch.prev)>>), ch)}

\* Units the parsers stop at: unrecognised bytes, a wrong count code, count
\* digits that are not base64, fewer elements than counted, more elements
\* than counted.
BrokenUnits(ch) ==
  LET r == IF ch.est
             THEN Raw(Ixn("JSON", ch.i, ch.sn + 1,
                          Digest(Serialize(Deserialize(ch.prev))), <<>>), 0, 0)
             ELSE Raw(IcpBasic("JSON", 0, 1), 0, 0)
      g == GoodSigs(ch.keys, 1, r)
  IN  {Opt(<<Junk>>, Ended(ch)),
       Opt(<<FrameTok(r), CountTok("-B", 1)>> \o g, Ended(ch)),
       Opt(<<FrameTok(r), CountTok("-A", -1)>> \o g, Ended(ch)),
       Opt(<<FrameTok(r), CountTok("-A", 2)>> \o g, Ended(ch)),
       Opt(<<FrameTok(r), CountTok("-A", 1)>> \o g \o g, Ended(ch))}

\* Receipts of an inception with the attachment of the other kind of receipt:
\* the parsers stop at them.
MismatchedReceiptUnits(ch) ==
  LET rct == Raw(Receipt("JSON", "rct", ch.prev.body.i, ch.prev.body.s,
                         Digest(ch.prev)), 0, 0)
      vrc == Raw(Receipt("JSON", "vrc", ch.prev.body.i, ch.prev.body.s,
                         Digest(ch.prev)), 0, 0)
  IN  IF ch.sn # 0 THEN {}
      ELSE {Opt(<<FrameTok(rct), CountTok("-A", 1), Sig(0, 3, ch.prev)>>, Ended(ch)),
            Opt(<<FrameTok(vrc), CountTok("-A", 1), Couplet(3, 3, ch.prev)>>, Ended(ch))}

\* Rotations and interactions that arrive before any inception.
OrphanUnits(ch) ==
  LET h == Established(Raw(IcpBasic("JSON", 0, 1), 0, 0), <<2>>, NoPrefix)
  IN  {Opt(u.toks, Failed(ch)) :
         u \in {x \in RotationUnits(h) \cup InteractionUnits(h) : x.ch.mode = "open"}}

\* What may follow a key event that was not well-formed: events that would
\* have continued the chain, a receipt, a unit the parsers stop at.
AfterFailure(ch) ==
  {Opt(u.toks, ch) :
     u \in {x \in (IF ch.est THEN RotationUnits(ch) \cup InteractionUnits(ch)
                   ELSE InceptionUnits(ch)) :
              x.ch.mode = "open" /\ x.toks[1].raw.pad = 0
              /\ x.toks[1].raw.codec = "JSON"
              /\ x.toks[1].raw.body.v.size = ByteLen(x.toks[1].raw)}}
  \cup {Opt(u.toks, ch) : u \in {x \in ReceiptUnits(ch) : x.toks[3].by = 3}}
  \cup {Opt(u.toks, Ended(ch)) : u \in BrokenUnits(ch)}

UnitsAt(ch) ==
  IF ch.mode = "ended" THEN {}
  ELSE IF ch.mode = "failed" THEN AfterFailure(ch)
  ELSE ReceiptUnits(ch) \cup BrokenUnits(ch) \cup MismatchedReceiptUnits(ch)
       \cup (IF ch.est
               THEN RotationUnits(ch) \cup InteractionUnits(ch)
                    \cup LateInceptionUnits(ch)
               ELSE InceptionUnits(ch) \cup OrphanUnits(ch))

RECURSIVE StreamsFrom(_, _)
StreamsFrom(ch, n) ==
  IF n = 0 THEN {<<>>}
  ELSE {<<>>} \cup UNION {{u.toks \o rest : rest \in StreamsFrom(u.ch, n - 1)} :
                            u \in UnitsAt(ch)}

Streams == StreamsFrom(NoChain, MaxUnits)

(***************************************************************************)
(* signed_event_stream_validate: fold_many1(signed_message, Ok(default), g) *)
(***************************************************************************)

VARIABLES
  s,       \* the bytes handed to signed_event_stream_validate
  input,   \* fold_many1's unread input
  acc,     \* the fold's accumulator: Ok(state) or Err
  pc,      \* "first": before the first message; "loop"; "done"
  result,  \* what signed_event_stream_validate returned
  log      \* history: one entry per call of the fold's closure

\* The state of an attachment parser called on its own (AttachSpec).
VARIABLES
  parts,   \* history: the count code, elements and trailer the bytes are made of
  bytes,   \* the bytes handed to the parser
  parsed   \* the parser called and what it returned

\* The state of validations that run side by side (ParSpec).
VARIABLES
  runs,    \* for each validation: its bytes, unread input, position and result
  cells    \* the accumulators of the folds

\* The state of the key managers (KeySpec).
VARIABLES
  managers,   \* history: every CryptoBox built, m_0 first
  generated,  \* history: the key pairs the generator returned, in order
  signed      \* history: the signatures made, with the manager that made each

stream_vars == <<s, input, acc, pc, result, log>>
attach_vars == <<parts, bytes, parsed>>
par_vars == <<runs, cells>>
key_vars == <<managers, generated, signed>>

vars == <<stream_vars, attach_vars, par_vars, key_vars>>

NoParts == [code |-> <<>>, digits |-> <<>>, elems |-> <<>>, trailer |-> <<>>]
NoParse == [by |-> "none"]

\* No attachment parser is running.
AttachIdle == parts = NoParts /\ bytes = <<>> /\ parsed = NoParse

\* No validations run side by side.
ParIdle == runs = <<>> /\ cells = <<>>

\* No key manager was built.
KeysIdle == managers = <<>> /\ generated = <<>> /\ signed = {}

NoResult == [ok |-> FALSE, kind |-> "none", code |-> "none"]
Err(kind, code) == [ok |-> FALSE, kind |-> kind, code |-> code]
Done(rest, st) == [ok |-> TRUE, rest |-> rest, state |-> st]

\* A map_err that hands on the error it was given.
map_err_keep(e) == Fail(e)

\* .map_err(|_| nom::Err::Error((s, ErrorKind::Verify))): whatever the error
\* was, the accumulator holds Error(Verify).
map_err(e) == Fail("Verify")

\* Verification against the keys in force before the event.
verify_config_old(old_state, new_state) == old_state.current

\* The key config the signatures are verified against: new_state.current.
verify_config(old_state, new_state) == new_state.current

\* The bytes the signatures are verified over: e.event.raw.
verify_bytes(e) == e.event.raw

\* A test that takes any Ok for a success.
verified_any(v) == v.ok

\* The test of the closure's if: the verification returned Ok(true).
verified(v) == v.ok /\ v.val

Step(a, out, why, keys) == [acc |-> a, out |-> out, why |-> why, keys |-> keys]

\* An arm that reports an event the evolver rejects and goes on with the old
\* state.
validate_event_lenient(a, e) ==
  IF ~ a.ok THEN Step(a, "skipped", "none", <<>>)
  ELSE
    LET r == apply(a.state, e.event.event)
    IN  IF ~ r.ok THEN Step(a, "rejected", r.err, <<>>)
        ELSE
          LET kc == verify_config(a.state, r.state)
              v == verify(kc, verify_bytes(e), e.signatures)
          IN  IF ~ v.ok THEN Step(map_err(v.err), "rejected", v.err, kc.keys)
              ELSE IF verified(v) THEN Step(Ok(r.state), "applied", "none", kc.keys)
              ELSE Step(Fail("Verify"), "rejected", "VerifyFalse", kc.keys)

\* An arm that verifies the new state and returns the old one.
validate_event_stale(a, e) ==
  IF ~ a.ok THEN Step(a, "skipped", "none", <<>>)
  ELSE
    LET r == apply(a.state, e.event.event)
    IN  IF ~ r.ok THEN Step(map_err(r.err), "rejected", r.err, <<>>)
        ELSE
          LET kc == verify_config(a.state, r.state)
              v == verify(kc, verify_bytes(e), e.signatures)
          IN  IF ~ v.ok THEN Step(map_err(v.err), "rejected", v.err, kc.keys)
              ELSE IF verified(v) THEN Step(a, "applied", "none", kc.keys)
              ELSE Step(Fail("Verify"), "rejected", "VerifyFalse", kc.keys)

\* The closure's Deserialized::Event arm.
validate_event(a, e) ==
  IF ~ a.ok THEN Step(a, "skipped", "none", <<>>)
  ELSE
    LET r == apply(a.state, e.event.event)
    IN  IF ~ r.ok THEN Step(map_err(r.err), "rejected", r.err, <<>>)
        ELSE
          LET kc == verify_config(a.state, r.state)
              v == verify(kc, verify_bytes(e), e.signatures)
          IN  IF ~ v.ok THEN Step(map_err(v.err), "rejected", v.err, kc.keys)
              ELSE IF verified(v) THEN Step(Ok(r.state), "applied", "none", kc.keys)
              ELSE Step(Fail("Verify"), "rejected", "VerifyFalse", kc.keys)

\* A couplet verifies standalone: the signature was made by the key the
\* couplet names, over the raw frame the receipt refers to by digest.
CoupletValid(body, cp) == cp.by = cp.key /\ Digest(cp.over) = body.d

\* A closure whose receipt arm verifies the couplets and fails the fold on one
\* that does not verify.
closure_verifying(a, next) ==
  IF next.kind = "Event" THEN validate_event(a, next)
  ELSE IF /\ next.kind = "Rct" /\ a.ok
          /\ \E n \in 1..Len(next.couplets) : ~ CoupletValid(next.body, next.couplets[n])
    THEN Step(Fail("Verify"), "rejected", "SignatureInvalid", <<>>)
  ELSE Step(a, "passed", "none", <<>>)

\* The fold's closure |acc, next|: a key event is applied and verified, any
\* other message leaves the accumulator as it is.
closure(a, next) ==
  IF next.kind = "Event" THEN validate_event(a, next)
  ELSE Step(a, "passed", "none", <<>>)

Entry(a, next, st) ==
  [msg |-> next, pre |-> a, post |-> st.acc, out |-> st.out, why |-> st.why,
   keys |-> st.keys]

Init ==
  /\ s \in Streams
  /\ input = s
  /\ acc = Ok(DefaultState)
  /\ pc = "first"
  /\ result = NoResult
  /\ log = <<>>
  /\ AttachIdle /\ ParIdle /\ KeysIdle

\* The first message does not parse: fold_many1 needs one.
Many1 ==
  /\ pc = "first"
  /\ signed_message(input).res = "Error"
  /\ result' = Err("Error", "Many1")
  /\ pc' = "done"
  /\ UNCHANGED <<s, input, acc, log>>
  /\ UNCHANGED <<attach_vars, par_vars, key_vars>>

\* A message parses: the closure folds it into the accumulator.
Fold ==
  /\ pc \in {"first", "loop"}
  /\ signed_message(input).res = "Ok"
  /\ LET m == signed_message(input)
         st == closure(acc, m.out)
     IN  IF pc = "loop" /\ m.rest = input
           THEN /\ result' = Err("Failure", "Many1")
                /\ pc' = "done"
                /\ UNCHANGED <<input, acc, log>>
           ELSE /\ acc' = st.acc
                /\ input' = m.rest
                /\ log' = Append(log, Entry(acc, m.out, st))
                /\ pc' = "loop"
                /\ UNCHANGED result
  /\ UNCHANGED s
  /\ UNCHANGED <<attach_vars, par_vars, key_vars>>

\* A later message does not parse: the fold ends, and the accumulator is
\* unwrapped (id?) into the function's result.
Break ==
  /\ pc = "loop"
  /\ signed_message(input).res = "Error"
  /\ result' = IF acc.ok THEN Done(input, acc.state) ELSE Err("Error", acc.err)
  /\ pc' = "done"
  /\ UNCHANGED <<s, input, acc, log>>
  /\ UNCHANGED <<attach_vars, par_vars, key_vars>>

\* A parser failed unrecoverably: the failure is returned at once.
Abort ==
  /\ pc \in {"first", "loop"}
  /\ signed_message(input).res = "Failure"
  /\ result' = Err("Failure", signed_message(input).code)
  /\ pc' = "done"
  /\ UNCHANGED <<s, input, acc, log>>
  /\ UNCHANGED <<attach_vars, par_vars, key_vars>>

Next == Many1 \/ Fold \/ Break \/ Abort

Spec == Init /\ [][Next]_vars

(***************************************************************************)
(* Properties                                                              *)
(***************************************************************************)

Idx == 1..Len(log)
IsEvent(e) == e.msg.kind = "Event"
Ev(e) == e.msg.event.event
RawOf(e) == e.msg.event.raw
Applied(e) == e.out = "applied"
Rejected(e) == e.out = "rejected"

\* The number of distinct valid signatures an entry's event carries for a
\* key config.
ValidCount(kc, e) == Cardinality(ValidIndices(kc, RawOf(e), e.msg.signatures))

\* C1: every key event is applied first and its signatures are then verified
\* against the key set of the state the application produced, never the one
\* it started from; the new state is adopted exactly when that verification
\* succeeds.
C1_VerifiedAgainstNewState ==
  \A j \in Idx :
    LET e == log[j]
    IN  (IsEvent(e) /\ e.pre.ok) =>
          LET r == apply(e.pre.state, Ev(e))
          IN  IF ~ r.ok THEN Rejected(e) /\ e.keys = <<>> /\ ~ e.post.ok
              ELSE /\ e.keys = r.state.current.keys
                   /\ e.post.ok <=>
                        ValidCount(r.state.current, e) >= r.state.current.threshold
                   /\ e.post.ok => e.post.state = r.state

\* A rotation was adopted whose signatures verify under the keys it commits
\* and under none of the keys in force before it.
C1_Witness ==
  \E j \in Idx :
    /\ IsEvent(log[j]) /\ Ev(log[j]).t = "rot" /\ Applied(log[j])
    /\ log[j].post.state.current.keys # log[j].pre.state.current.keys
    /\ ValidCount(log[j].pre.state.current, log[j]) = 0

\* C2: a key event with fewer distinct valid signatures (by key index) than
\* the threshold of the state it produces is rejected; an accepted stream
\* holds only key events that meet their threshold; the 2-of-3 inception with
\* three valid signatures validates.
C2_ThresholdEnforced ==
  /\ \A j \in Idx :
       LET e == log[j]
       IN  (IsEvent(e) /\ e.pre.ok /\ apply(e.pre.state, Ev(e)).ok) =>
             LET kc == apply(e.pre.state, Ev(e)).state.current
             IN  ValidCount(kc, e) < kc.threshold => Rejected(e) /\ ~ acc.ok
  /\ (pc = "done" /\ result.ok) =>
       \A j \in Idx :
         IsEvent(log[j]) =>
           /\ Applied(log[j])
           /\ ValidCount(log[j].post.state.current, log[j])
                >= log[j].post.state.current.threshold
  /\ (pc = "done" /\ s = Unit(Raw(IcpMulti, 0, 0),
                              GoodSigs(<<1, 2, 3>>, 3, Raw(IcpMulti, 0, 0))))
       => result.ok

\* Validation failed on an event that carries as many signatures as its
\* threshold asks for, two of them for the same key index.
C2_Witness ==
  /\ pc = "done" /\ ~ result.ok
  /\ \E j \in Idx :
       /\ IsEvent(log[j]) /\ Rejected(log[j]) /\ log[j].why = "VerifyFalse"
       /\ Len(log[j].msg.signatures) >= Ev(log[j]).kt
       /\ Len(log[j].msg.signatures) >= 2
       /\ log[j].msg.signatures[1].index = log[j].msg.signatures[2].index

\* A stream of one well-formed inception with a single attached signature
\* that does not verify against the declared key.
BadSignatureStream ==
  /\ Len(s) = 3 /\ s[1].tok = "frame" /\ s[2] = CountTok("-A", 1) /\ s[3].tok = "sig"
  /\ s[1].raw.body.t = "icp"
  /\ apply(DefaultState, s[1].raw.body).ok
  /\ ~ SigValid([keys |-> s[1].raw.body.k], s[1].raw, s[3])

\* C3 as stated: framing succeeds and the fold fails with SignatureInvalid,
\* returning no state.
C3_FailsWithSignatureInvalid ==
  (pc = "done" /\ BadSignatureStream) =>
    /\ signed_message(s).res = "Ok"
    /\ ~ result.ok /\ result.code = "SignatureInvalid"

\* C3 amended: framing succeeds and the fold fails, returning no state; the
\* error it returns is nom's Error of kind Verify, whatever the verification
\* reported.
C3_FailsWithVerify ==
  (pc = "done" /\ BadSignatureStream) =>
    /\ signed_message(s).res = "Ok"
    /\ result = Err("Error", "Verify")
    /\ Len(log) = 1 /\ log[1].why = "SignatureInvalid" /\ ~ acc.ok

C3_Witness == pc = "done" /\ BadSignatureStream /\ ~ result.ok

\* The number of bytes of a token and of a stream.
TokLen(tk) ==
  CASE tk.tok = "frame" -> ByteLen(tk.raw)
    [] tk.tok = "count" -> 4
    [] tk.tok = "sig" -> 88
    [] tk.tok = "couplet" -> 132
    [] OTHER -> 1

RECURSIVE StreamLen(_)
StreamLen(q) == IF q = <<>> THEN 0 ELSE TokLen(Head(q)) + StreamLen(Tail(q))

\* C4 as stated: the raw frame of every accepted frame is as long as its
\* version string declares.
C4_RawLengthIsDeclaredSize ==
  message(input).res = "Ok" =>
    ByteLen(message(input).out.raw) = message(input).out.event.v.size

\* C4 amended: the raw frame of every accepted frame is exactly the bytes the
\* codec consumed; the declared size plays no part, and a frame that declares
\* its true length is therefore as long as it declares.
C4_RawIsConsumedPrefix ==
  message(input).res = "Ok" =>
    LET m == message(input)
    IN  /\ ByteLen(m.out.raw) = StreamLen(input) - StreamLen(m.rest)
        /\ m.out.raw = Head(input).raw
        /\ m.out.event = Deserialize(m.out.raw)
        /\ Head(input).raw.body.v.size = ByteLen(Head(input).raw)
             => ByteLen(m.out.raw) = m.out.event.v.size

\* A frame that declares a size other than its length is accepted and folded.
C4_Witness ==
  /\ pc = "loop" /\ Len(log) = 1 /\ IsEvent(log[1]) /\ Applied(log[1])
  /\ message(s).res = "Ok"
  /\ message(s).out.event.v.size # ByteLen(message(s).out.raw)
  /\ message(s).out.raw.codec \in Codecs

\* The entries of the events the fold applied, in order.
AppliedLog == SelectSeq(log, Applied)

\* C5: after a successful validation, consecutively applied key events are
\* chained by sequence number and by the digest of the previous raw frame;
\* the state's sn is 0 at inception and grows by one per applied event, and
\* its last-event digest is the digest of the last applied raw frame.
C5_ChainContinuity ==
  (pc = "done" /\ result.ok) =>
    /\ \A n \in 1..(Len(AppliedLog) - 1) :
         /\ Ev(AppliedLog[n + 1]).s = Ev(AppliedLog[n]).s + 1
         /\ Ev(AppliedLog[n + 1]).p = Digest(RawOf(AppliedLog[n]))
    /\ \A n \in 1..Len(AppliedLog) :
         /\ AppliedLog[n].post.state.sn = n - 1
         /\ AppliedLog[n].post.state.last = Digest(RawOf(AppliedLog[n]))

\* An event of an established identifier whose sn is not state.sn + 1.
OutOfOrderAt(j) ==
  /\ IsEvent(log[j]) /\ log[j].pre.ok
  /\ log[j].pre.state.prefix # NoPrefix
  /\ Ev(log[j]).t \in {"rot", "drt", "ixn"}
  /\ Ev(log[j]).s # log[j].pre.state.sn + 1

\* The stream of scenario S5: an inception with sn 0, then a rotation with
\* sn 2, nothing else.
GapStream ==
  /\ Len(log) = 2 /\ input = <<>>
  /\ IsEvent(log[1]) /\ Ev(log[1]).t = "icp" /\ Ev(log[1]).s = 0 /\ Applied(log[1])
  /\ IsEvent(log[2]) /\ Ev(log[2]).t = "rot" /\ Ev(log[2]).s = 2

\* C6 as stated: an event whose sn is not state.sn + 1 is not applied and
\* validation fails with OutOfOrder.
C6_FailsWithOutOfOrder ==
  /\ \A j \in Idx : OutOfOrderAt(j) => Rejected(log[j]) /\ ~ log[j].post.ok
  /\ (pc = "done" /\ GapStream) => ~ result.ok /\ result.code = "OutOfOrder"

\* C6 amended: the event is not applied and validation fails; the evolver's
\* OutOfOrder is discarded and the error returned is nom's Error of kind
\* Verify.
C6_FailsWithVerify ==
  /\ \A j \in Idx :
       OutOfOrderAt(j) =>
         /\ Rejected(log[j]) /\ log[j].why = "OutOfOrder"
         /\ log[j].post = Fail("Verify")
         /\ pc = "done" => ~ result.ok
  /\ (pc = "done" /\ GapStream) => result = Err("Error", "Verify")

C6_Witness == pc = "done" /\ GapStream /\ OutOfOrderAt(2) /\ ~ result.ok

C8_InteractionFrame ==
  \A j \in Idx :
    LET e == log[j]
    IN  (IsEvent(e) /\ Ev(e).t = "ixn" /\ Applied(e)) =>
          /\ e.post.state =
               [e.pre.state EXCEPT !.sn = e.pre.state.sn + 1,
                                   !.last = e.post.state.last]
          /\ e.post.state.last # e.pre.state.last
          /\ e.post.state.current = e.pre.state.current
          /\ e.post.state.witnesses = e.pre.state.witnesses

\* An interaction that carries a seal was applied to a state with witnesses.
C8_Witness ==
  \E j \in Idx :
    /\ IsEvent(log[j]) /\ Ev(log[j]).t = "ixn" /\ Applied(log[j])
    /\ Ev(log[j]).a # <<>>
    /\ log[j].pre.state.witnesses # <<>>

\* The index of the first event the fold rejected (0: none).
FirstRejected ==
  IF \E j \in Idx : Rejected(log[j])
    THEN CHOOSE j \in Idx : Rejected(log[j]) /\ \A k \in 1..(j - 1) : ~ Rejected(log[k])
    ELSE 0

\* C9: after the first event that fails no later event is applied, the
\* result is that event's error and no state; on success the state returned
\* is the one the last applied event produced.
C9_FirstErrorSurfaces ==
  /\ \A j \in Idx : \A k \in Idx :
       (j < k /\ Rejected(log[j])) => ~ Applied(log[k]) /\ log[k].post = log[j].post
  /\ (pc = "done" /\ FirstRejected # 0) =>
       result = Err("Error", log[FirstRejected].post.err)
  /\ (pc = "done" /\ result.ok /\ AppliedLog # <<>>) =>
       result.state = AppliedLog[Len(AppliedLog)].post.state

\* A stream of one correctly signed inception.
SingleInception ==
  /\ Len(log) = 1 /\ input = <<>>
  /\ IsEvent(log[1]) /\ Ev(log[1]).t = "icp"
  /\ Len(s) = 2 + Len(log[1].msg.signatures)
  /\ apply(DefaultState, Ev(log[1])).ok
  /\ ValidCount([keys |-> Ev(log[1]).k], log[1]) >= Ev(log[1]).kt

\* C10: validating a single correctly signed inception succeeds with the
\* state the inception describes; a basic-prefix inception leaves exactly
\* one current key, the identifier.
C10_InceptionState ==
  (pc = "done" /\ SingleInception) =>
    /\ result.ok
    /\ result.rest = <<>>
    /\ result.state.sn = 0
    /\ result.state.prefix = Ev(log[1]).i
    /\ result.state.current.keys = Ev(log[1]).k
    /\ result.state.current.threshold = Ev(log[1]).kt
    /\ result.state.current.next = Ev(log[1]).n
    /\ result.state.witnesses = Ev(log[1]).w
    /\ result.state.wt = Ev(log[1]).wt
    /\ result.state.traits = Ev(log[1]).c
    /\ Ev(log[1]).i.code = "D" =>
         /\ Len(result.state.current.keys) = 1
         /\ Basic(result.state.current.keys[1]) = Ev(log[1]).i

\* The basic-prefix inception was validated, and so was the one with
\* witnesses and configuration traits.
C10_Witness ==
  /\ pc = "done" /\ SingleInception /\ result.ok
  /\ Ev(log[1]).w # <<>> /\ Ev(log[1]).c # <<>> /\ Len(Ev(log[1]).k) = 3

\* The kinds of SemanticError the evolver reports.
SemanticErrors ==
  {"OutOfOrder", "BadPriorDigest", "NextKeysMismatch", "WrongIdentifier",
   "ThresholdUnmet", "MissingDelegator", "SemanticError"}

Absent(st) == st.prefix = NoPrefix
IsInception(ev) == ev.t \in {"icp", "dip"}
IsSuccessor(ev) == ev.t \in {"rot", "drt", "ixn"}

IsReceipt(e) == e.msg.kind \in {"Rct", "Vrc"}

\* C12: every couplet of a non-transferable receipt in a processed stream is
\* verified as a signature by its key over the receipted event's raw frame; a
\* stream that holds an Rct with a couplet that does not verify is not
\* accepted.
C12_ReceiptCoupletsVerified ==
  (pc = "done" /\ result.ok) =>
    \A j \in Idx :
      log[j].msg.kind = "Rct" =>
        \A n \in 1..Len(log[j].msg.couplets) :
          CoupletValid(log[j].msg.body, log[j].msg.couplets[n])

(***************************************************************************)
(* signed_event_stream_validate as a function of its input                 *)
(***************************************************************************)

RECURSIVE fold_many1(_, _, _)
\* fold_many1(signed_message, init, g) from the input inp on, with the
\* accumulator a; first tells that no message has been folded yet.
fold_many1(inp, a, first) ==
  LET m == signed_message(inp)
  IN  IF m.res = "Failure" THEN Err("Failure", m.code)
      ELSE IF m.res = "Error" THEN
        IF first THEN Err("Error", "Many1")
        ELSE IF a.ok THEN Done(inp, a.state) ELSE Err("Error", a.err)
      ELSE IF ~ first /\ m.rest = inp THEN Err("Failure", "Many1")
      ELSE fold_many1(m.rest, closure(a, m.out).acc, FALSE)

signed_event_stream_validate(inp) == fold_many1(inp, Ok(DefaultState), TRUE)

RECURSIVE WithoutReceipts(_)
\* The stream with every receipt message (frame and attachment) taken out;
\* what the parsers do not read as a message stays where it is.
WithoutReceipts(inp) ==
  LET m == signed_message(inp)
  IN  IF m.res # "Ok" THEN inp
      ELSE IF m.out.kind \in {"Rct", "Vrc"} THEN WithoutReceipts(m.rest)
      ELSE SubSeq(inp, 1, Len(inp) - Len(m.rest)) \o WithoutReceipts(m.rest)

\* C13: a receipt (Rct or Vrc) leaves the accumulator, state or error, as it
\* found it, wherever it stands in the stream; the result of the fold is the
\* result for the stream with its receipts taken out, when a message is left
\* to fold.
C13_ReceiptsFoldedPast ==
  /\ \A j \in Idx : IsReceipt(log[j]) => log[j].post = log[j].pre /\ log[j].out = "passed"
  /\ pc = "done" =>
       /\ result = signed_event_stream_validate(s)
       /\ signed_message(WithoutReceipts(s)).res = "Ok"
            => result = signed_event_stream_validate(WithoutReceipts(s))

\* The fold ended on a stream whose receipts stand before, between and after
\* key events: one met the default state, one an established state.
C13_Witness ==
  /\ pc = "done" /\ result.ok
  /\ WithoutReceipts(s) # s
  /\ signed_message(WithoutReceipts(s)).res = "Ok"
  /\ \E j \in Idx : IsReceipt(log[j]) /\ log[j].pre = Ok(DefaultState)
  /\ \E j \in Idx : IsReceipt(log[j]) /\ log[j].pre.ok /\ ~ Absent(log[j].pre.state)

(***************************************************************************)
(* The attachment parsers on bytes. A byte is a one-character string, the  *)
(* input a sequence of bytes.                                              *)
(***************************************************************************)

\* Bound: the number of elements written after a count code.
MaxElems == 2

\* The url-safe base64 alphabet, in the order of its values 0..63.
B64 ==
  <<"A", "B", "C", "D", "E", "F", "G", "H", "I", "J", "K", "L", "M", "N", "O",
    "P", "Q", "R", "S", "T", "U", "V", "W", "X", "Y", "Z", "a", "b", "c", "d",
    "e", "f", "g", "h", "i", "j", "k", "l", "m", "n", "o", "p", "q", "r", "s",
    "t", "u", "v", "w", "x", "y", "z", "0", "1", "2", "3", "4", "5", "6", "7",
    "8", "9", "-", "_">>

IsB64(ch) == \E v \in 1..Len(B64) : B64[v] = ch
B64Value(ch) == (CHOOSE v \in 1..Len(B64) : B64[v] = ch) - 1

\* b64_to_num of two characters: the 12-bit integer they spell, most
\* significant digit first; an error if one is not a base64 digit.
b64_to_num(d) ==
  IF \A j \in 1..Len(d) : IsB64(d[j])
    THEN [ok |-> TRUE, val |-> Len(B64) * B64Value(d[1]) + B64Value(d[2])]
    ELSE [ok |-> FALSE, err |-> "Base64Decode"]

\* The two base64 digits of n (0..4095).
num_to_b64(n) == <<B64[(n \div Len(B64)) + 1], B64[(n % Len(B64)) + 1]>>

Drop(b, n) == SubSeq(b, n + 1, Len(b))

\* nom::bytes::complete::take(n)
take(n, b) == IF Len(b) < n THEN PError("Eof") ELSE POk(Drop(b, n), SubSeq(b, 1, n))

\* nom::bytes::complete::tag(t)
tag(t, b) ==
  IF Len(b) >= Len(t) /\ SubSeq(b, 1, Len(t)) = t
    THEN POk(Drop(b, Len(t)), t)
    ELSE PError("Tag")

\* A sig_count that decodes the digits and leaves them in the input.
sig_count_peek(b) ==
  LET head == take(2, b)
  IN  IF head.res # "Ok" THEN head
      ELSE IF head.out # <<"-", "A">> THEN PError("Tag")
      ELSE LET digits == take(2, head.rest)
           IN  IF digits.res # "Ok" THEN digits
               ELSE IF ~ b64_to_num(digits.out).ok THEN PFailure("IsNot")
               ELSE POk(head.rest, b64_to_num(digits.out).val)

\* sig_count: two bytes that must be "-" and "A", then two bytes decoded by
\* b64_to_num; digits it cannot decode are a Failure.
sig_count_bytes(b) ==
  LET head == take(2, b)
  IN  IF head.res # "Ok" THEN head
      ELSE
        LET dash == tag(<<"-">>, head.out)
        IN  IF dash.res # "Ok" THEN dash
            ELSE IF tag(<<"A">>, dash.rest).res # "Ok" THEN tag(<<"A">>, dash.rest)
            ELSE
              LET digits == take(2, head.rest)
              IN  IF digits.res # "Ok" THEN digits
                  ELSE IF ~ b64_to_num(digits.out).ok THEN PFailure("IsNot")
                  ELSE POk(digits.rest, b64_to_num(digits.out).val)

\* Text length of an attached signature, by its code: "A" and "B" carry a
\* one-digit index and 64 raw bytes, "0A" a two-digit index and 114.
AttachedLen(code) == IF code = "0A" THEN 156 ELSE 88

\* Text length of a basic prefix and of a self-signing prefix, by code.
BasicLen(code) == IF code \in {"B", "C", "D"} THEN 44 ELSE 48
SelfSigningLen(code) == IF code \in {"0B", "0C"} THEN 88 ELSE 156

\* The derivation code a text starts with, among the codes of one kind: a
\* code is one, two or four characters long.
CodeOf(b, one, two, four) ==
  IF Len(b) >= 1 /\ b[1] \in one THEN b[1]
  ELSE IF Len(b) >= 2 /\ \E x \in two : SubSeq(b, 1, 2) = x.chars
    THEN (CHOOSE x \in two : SubSeq(b, 1, 2) = x.chars).code
  ELSE IF Len(b) >= 4 /\ \E x \in four : SubSeq(b, 1, 4) = x.chars
    THEN (CHOOSE x \in four : SubSeq(b, 1, 4) = x.chars).code
  ELSE "none"

Chars(code, chars) == [code |-> code, chars |-> chars]

\* attached_signature: the code, the index and as many characters as the
\* code declares.
attached_signature(b) ==
  LET code == CodeOf(b, {"A", "B"}, {Chars("0A", <<"0", "A">>)}, {})
      at == IF code = "0A" THEN 2 ELSE 1
      width == IF code = "0A" THEN 2 ELSE 1
      index == SubSeq(b, at + 1, at + width)
  IN  IF code = "none" THEN PError("Tag")
      ELSE IF Len(b) < AttachedLen(code) THEN PError("Eof")
      ELSE IF \E j \in 1..width : ~ IsB64(index[j]) THEN PError("IsNot")
      ELSE POk(Drop(b, AttachedLen(code)),
               [code |-> code,
                index |-> IF width = 1 THEN B64Value(index[1])
                          ELSE b64_to_num(index).val,
                sig |-> SubSeq(b, at + width + 1, AttachedLen(code))])

\* basic_prefix: the code and the key.
basic_prefix(b) ==
  LET code == CodeOf(b, {"B", "C", "D"}, {},
                     {Chars("1AAA", <<"1", "A", "A", "A">>),
                      Chars("1AAB", <<"1", "A", "A", "B">>)})
      at == IF code \in {"B", "C", "D"} THEN 1 ELSE 4
  IN  IF code = "none" THEN PError("Tag")
      ELSE IF Len(b) < BasicLen(code) THEN PError("Eof")
      ELSE POk(Drop(b, BasicLen(code)),
               [code |-> code, key |-> SubSeq(b, at + 1, BasicLen(code))])

\* self_signing_prefix: the code and the signature.
self_signing_prefix(b) ==
  LET code == CodeOf(b, {}, {Chars("0B", <<"0", "B">>), Chars("0C", <<"0", "C">>)},
                     {Chars("1AAE", <<"1", "A", "A", "E">>)})
      at == IF code = "1AAE" THEN 4 ELSE 2
  IN  IF code = "none" THEN PError("Tag")
      ELSE IF Len(b) < SelfSigningLen(code) THEN PError("Eof")
      ELSE POk(Drop(b, SelfSigningLen(code)),
               [code |-> code, sig |-> SubSeq(b, at + 1, SelfSigningLen(code))])

\* tuple((basic_prefix, self_signing_prefix))
couplet(b) ==
  LET k == basic_prefix(b)
  IN  IF k.res # "Ok" THEN k
      ELSE LET g == self_signing_prefix(k.rest)
           IN  IF g.res # "Ok" THEN g
               ELSE POk(g.rest, [key |-> k.out, sig |-> g.out])

\* The element parser of an attachment: "sig" or "couplet".
element(kind, b) == IF kind = "sig" THEN attached_signature(b) ELSE couplet(b)

RECURSIVE count_lenient(_, _, _)
\* A count that returns the elements it could read when they run out.
count_lenient(kind, n, b) ==
  IF n = 0 \/ element(kind, b).res # "Ok" THEN POk(b, <<>>)
  ELSE LET e == element(kind, b)
           r == count_lenient(kind, n - 1, e.rest)
       IN  POk(r.rest, <<e.out>> \o r.out)

RECURSIVE count_bytes(_, _, _)
\* nom::multi::count(parser, n): the parser n times; its first error is the
\* error of the whole.
count_bytes(kind, n, b) ==
  IF n = 0 THEN POk(b, <<>>)
  ELSE LET e == element(kind, b)
       IN  IF e.res # "Ok" THEN e
           ELSE LET r == count_bytes(kind, n - 1, e.rest)
                IN  IF r.res # "Ok" THEN r ELSE POk(r.rest, <<e.out>> \o r.out)

signatures_bytes(b) ==
  LET c == sig_count_bytes(b)
  IN  IF c.res # "Ok" THEN c ELSE count_bytes("sig", c.out, c.rest)

couplets_bytes(b) ==
  LET c == sig_count_bytes(b)
  IN  IF c.res # "Ok" THEN c ELSE count_bytes("couplet", c.out, c.rest)

(***************************************************************************)
(* AttachSpec: one attachment parser is called on bytes written from a     *)
(* count code, elements and a trailer.                                     *)
(***************************************************************************)

Fill(ch, n) == [j \in 1..n |-> ch]

\* An attached signature and its text.
SigElem(code, index, ch) ==
  LET head == IF code = "0A" THEN <<"0", "A">> \o num_to_b64(index)
              ELSE <<code, B64[index + 1]>>
      body == Fill(ch, AttachedLen(code) - Len(head))
  IN  [kind |-> "sig", val |-> [code |-> code, index |-> index, sig |-> body],
       bytes |-> head \o body]

\* A receipt couplet and its text.
CoupletElem(kcode, kchars, scode, schars, ch) ==
  LET key == Fill(ch, BasicLen(kcode) - Len(kchars))
      sig == Fill(ch, SelfSigningLen(scode) - Len(schars))
  IN  [kind |-> "couplet",
       val |-> [key |-> [code |-> kcode, key |-> key],
                sig |-> [code |-> scode, sig |-> sig]],
       bytes |-> kchars \o key \o schars \o sig]

\* The elements of test_sigs (an Ed25519 signature of index 0, an Ed448
\* signature of index 2), a signature with the highest one-digit index, and
\* two couplets.
GoodElems ==
  {SigElem("A", 0, "A"), SigElem("0A", 2, "A"), SigElem("B", Len(B64) - 1, "x"),
   CoupletElem("D", <<"D">>, "0B", <<"0", "B">>, "A"),
   CoupletElem("1AAB", <<"1", "A", "A", "B">>, "1AAE", <<"1", "A", "A", "E">>, "x")}

\* Texts no element parser reads: a signature and a couplet cut short, a code
\* that is none.
BrokenElems ==
  {[kind |-> "none", val |-> [cut |-> "sig"],
    bytes |-> SubSeq(SigElem("A", 0, "A").bytes, 1, 50)],
   [kind |-> "none", val |-> [cut |-> "couplet"],
    bytes |-> SubSeq(CoupletElem("D", <<"D">>, "0B", <<"0", "B">>, "A").bytes, 1, 100)],
   [kind |-> "none", val |-> [cut |-> "code"], bytes |-> Fill("Z", 20)]}

RECURSIVE ElemSeqs(_)
\* The sequences of at most n good elements.
ElemSeqs(n) ==
  IF n = 0 THEN {<<>>}
  ELSE {<<>>} \cup {<<e>> \o q : e \in GoodElems, q \in ElemSeqs(n - 1)}

Extra == <<"e", "x", "t", "r", "a", " ", "d", "a", "t", "a">>
Trailers == {<<>>, Extra}

Parts(code, digits, n, elems, trailer) ==
  [code |-> code, digits |-> digits, n |-> n, elems |-> elems, trailer |-> trailer]

\* Every count code "-A" d1 d2, alone and before a trailer.
CountInputs ==
  {Parts(<<"-", "A">>, <<B64[x], B64[y]>>, Len(B64) * (x - 1) + (y - 1), <<>>, tr) :
     x \in 1..Len(B64), y \in 1..Len(B64), tr \in Trailers}

\* Codes that are cut short, are not "-A", or whose digits are not base64.
MalformedInputs ==
  {Parts(c, d, -1, <<>>, tr) :
     c \in {<<>>, <<"-">>, <<"-", "B">>, <<"A", "A">>, <<"-", "A">>},
     d \in {<<>>, <<"A">>, <<"!", "!">>, <<"A", " ">>, <<"=", "B">>},
     tr \in Trailers}

\* A count of 0..MaxElems+1 before at most MaxElems elements, a broken
\* element or none after them, and a trailer.
ElemInputs ==
  {Parts(<<"-", "A">>, num_to_b64(n), n, es \o tail, tr) :
     n \in 0..(MaxElems + 1), es \in ElemSeqs(MaxElems),
     tail \in {<<>>} \cup {<<x>> : x \in BrokenElems}, tr \in Trailers}

AttachInputs == CountInputs \cup MalformedInputs \cup ElemInputs

RECURSIVE Flatten(_)
Flatten(elems) == IF elems = <<>> THEN <<>> ELSE Head(elems).bytes \o Flatten(Tail(elems))

Written(p) == p.code \o p.digits \o Flatten(p.elems) \o p.trailer

\* No stream is being validated.
StreamIdle ==
  /\ s = <<>> /\ input = <<>> /\ acc = Ok(DefaultState) /\ pc = "idle"
  /\ result = NoResult /\ log = <<>>

AttachInit ==
  /\ parts \in AttachInputs
  /\ bytes = Written(parts)
  /\ parsed = NoParse
  /\ StreamIdle /\ ParIdle /\ KeysIdle

Call(by, res) ==
  /\ parsed = NoParse
  /\ parsed' = [by |-> by, res |-> res]
  /\ UNCHANGED <<parts, bytes, stream_vars, par_vars, key_vars>>

CallSigCount == Call("sig_count", sig_count_bytes(bytes))
CallSignatures == Call("signatures", signatures_bytes(bytes))
CallCouplets == Call("couplets", couplets_bytes(bytes))

AttachNext == CallSigCount \/ CallSignatures \/ CallCouplets

AttachSpec == AttachInit /\ [][AttachNext]_vars

IsText(txt) == bytes = txt

\* C14: sig_count decodes "-A" d1 d2 to 64*d1 + d2 for every pair of base64
\* digits, a number of 0..4095 ("-AAA" is 0, "-AAB" is 1, "-ABA" is 64),
\* consumes those four bytes and returns every byte after them, unchanged, as
\* the remainder.
C14_SigCountDecodes ==
  parsed.by = "sig_count" =>
    /\ (/\ Len(bytes) >= 4 /\ bytes[1] = "-" /\ bytes[2] = "A"
        /\ IsB64(bytes[3]) /\ IsB64(bytes[4]))
         => /\ parsed.res.res = "Ok"
            /\ parsed.res.out = 64 * B64Value(bytes[3]) + B64Value(bytes[4])
            /\ parsed.res.out \in 0..4095
            /\ parsed.res.rest = SubSeq(bytes, 5, Len(bytes))
            /\ bytes = SubSeq(bytes, 1, 4) \o parsed.res.rest
    /\ IsText(<<"-", "A", "A", "A">>) => parsed.res = POk(<<>>, 0)
    /\ IsText(<<"-", "A", "A", "B">> \o Extra) => parsed.res = POk(Extra, 1)
    /\ IsText(<<"-", "A", "B", "A">>) => parsed.res = POk(<<>>, 64)
    /\ parsed.res.res = "Ok" => bytes[1] = "-" /\ bytes[2] = "A"

\* sig_count returned the highest count, 4095, and a trailer after it.
C14_Witness ==
  /\ parsed.by = "sig_count"
  /\ bytes = <<"-", "A", "_", "_">> \o Extra
  /\ parsed.res = POk(Extra, 4095)

RECURSIVE Lead(_, _)
\* The number of elements of the given kind a sequence of elements starts
\* with.
Lead(kind, elems) ==
  IF elems = <<>> \/ Head(elems).kind # kind THEN 0
  ELSE 1 + Lead(kind, Tail(elems))

\* The text length the derivation codes of a parsed element declare.
DeclaredLen(kind, val) ==
  IF kind = "sig" THEN AttachedLen(val.code)
  ELSE BasicLen(val.key.code) + SelfSigningLen(val.sig.code)

RECURSIVE SumLen(_, _)
SumLen(kind, vals) ==
  IF vals = <<>> THEN 0 ELSE DeclaredLen(kind, Head(vals)) + SumLen(kind, Tail(vals))

ParsedKind == IF parsed.by = "signatures" THEN "sig" ELSE "couplet"

\* C15: an attachment the signatures (couplets) parser accepts yields as many
\* signatures (couplets) as its count code says, each read with the length
\* its derivation code declares, and every byte after the last counted
\* element as the remainder; an attachment with fewer elements than counted
\* is rejected.
C15_CountedElements ==
  parsed.by \in {"signatures", "couplets"} =>
    /\ parsed.res.res = "Ok" =>
         /\ sig_count_bytes(bytes).res = "Ok"
         /\ Len(parsed.res.out) = sig_count_bytes(bytes).out
         /\ Len(bytes) - Len(parsed.res.rest) = 4 + SumLen(ParsedKind, parsed.res.out)
         /\ parsed.res.rest =
              SubSeq(bytes, Len(bytes) - Len(parsed.res.rest) + 1, Len(bytes))
    /\ (parts.n >= 0 /\ parts.n <= Lead(ParsedKind, parts.elems)) =>
         /\ parsed.res.res = "Ok"
         /\ parsed.res.out = [j \in 1..parts.n |-> parts.elems[j].val]
         /\ parsed.res.rest =
              Flatten(SubSeq(parts.elems, parts.n + 1, Len(parts.elems)))
                \o parts.trailer
    /\ (parts.n >= 0 /\ parts.n > Lead(ParsedKind, parts.elems)) =>
         parsed.res.res = "Error"

\* The two signatures of test_sigs, of different lengths, were read before a
\* trailer.
C15_Witness ==
  /\ parsed.by = "signatures" /\ parsed.res.res = "Ok"
  /\ bytes = <<"-", "A", "A", "C">> \o SigElem("A", 0, "A").bytes
               \o SigElem("0A", 2, "A").bytes \o Extra
  /\ parsed.res.rest = Extra
  /\ parsed.res.out = <<SigElem("A", 0, "A").val, SigElem("0A", 2, "A").val>>

\* A frame is canonical when it is what serialization writes: no
\* insignificant bytes.
Canonical(raw) == raw.pad = 0

MaxParUnits == 3

Validations == {1, 2}

\* The identifier a stream opens with.
Target(q) == IF q # <<>> /\ q[1].tok = "frame" THEN q[1].raw.body.i ELSE NoPrefix

\* The streams of validation p of at most n units: those of the single-key
\* identifier for the first, those of the multi-key and of the delegated
\* identifier for the second.
ParStreams(p, n) ==
  {q \in StreamsFrom(NoChain, n) :
     /\ q # <<>> /\ q[1].tok = "frame" /\ q[1].raw.pad = 0
     /\ q[1].raw.body.v.size = ByteLen(q[1].raw)
     /\ IF p = 1 THEN q[1].raw.body = Raw(IcpBasic("JSON", 0, 1), 0, 0).body
        ELSE Target(q) \in {IcpMulti.i, DipBasic.i}}

\* An accumulator that is one cell for all the folds.
acc_shared(p) == 1

\* The accumulator of validation p: the value fold_many1 is given in that
\* call, held by nothing else.
acc_of(p) == p

Run(q) == [s |-> q, input |-> q, pc |-> "first", result |-> NoResult]

ParInit ==
  /\ \E n \in 1..(MaxParUnits - 1) :
       \E x \in ParStreams(1, n) : \E y \in ParStreams(2, MaxParUnits - n) :
         runs = [p \in Validations |-> Run(IF p = 1 THEN x ELSE y)]
  /\ cells = [p \in Validations |-> Ok(DefaultState)]
  /\ StreamIdle /\ AttachIdle /\ KeysIdle

Return(p, res) ==
  /\ runs' = [runs EXCEPT ![p].result = res, ![p].pc = "done"]
  /\ UNCHANGED <<cells, stream_vars, attach_vars, key_vars>>

\* The first message of validation p does not parse.
ParMany1(p) ==
  /\ runs[p].pc = "first"
  /\ signed_message(runs[p].input).res = "Error"
  /\ Return(p, Err("Error", "Many1"))

\* A message of validation p parses and is folded into its accumulator.
ParFold(p) ==
  /\ runs[p].pc \in {"first", "loop"}
  /\ signed_message(runs[p].input).res = "Ok"
  /\ LET m == signed_message(runs[p].input)
         st == closure(cells[acc_of(p)], m.out)
     IN  IF runs[p].pc = "loop" /\ m.rest = runs[p].input
           THEN Return(p, Err("Failure", "Many1"))
           ELSE /\ cells' = [cells EXCEPT ![acc_of(p)] = st.acc]
                /\ runs' = [runs EXCEPT ![p].input = m.rest, ![p].pc = "loop"]
                /\ UNCHANGED <<stream_vars, attach_vars, key_vars>>

\* A later message of validation p does not parse: its fold ends.
ParBreak(p) ==
  /\ runs[p].pc = "loop"
  /\ signed_message(runs[p].input).res = "Error"
  /\ Return(p, IF cells[acc_of(p)].ok
                 THEN Done(runs[p].input, cells[acc_of(p)].state)
                 ELSE Err("Error", cells[acc_of(p)].err))

\* A parser of validation p failed unrecoverably.
ParAbort(p) ==
  /\ runs[p].pc \in {"first", "loop"}
  /\ signed_message(runs[p].input).res = "Failure"
  /\ Return(p, Err("Failure", signed_message(runs[p].input).code))

ParNext == \E p \in Validations : ParMany1(p) \/ ParFold(p) \/ ParBreak(p) \/ ParAbort(p)

ParSpec == ParInit /\ [][ParNext]_vars

\* C17: validations of streams of different identifiers do not depend on one
\* another: however their steps interleave, the result of each (state or
\* error) is the one the validation gives when it runs alone.
C17_Independent ==
  \A p \in Validations :
    /\ Target(runs[p].s) # Target(runs[3 - p].s)
    /\ runs[p].pc = "done" =>
         runs[p].result = signed_event_stream_validate(runs[p].s)
    /\ runs[p].pc = "first" => cells[acc_of(p)] = Ok(DefaultState)

\* Both validations ended after folding side by side, one with the state of
\* its identifier and one with an error.
C17_Witness ==
  /\ \A p \in Validations : runs[p].pc = "done" /\ Len(runs[p].s) > Len(runs[p].input)
  /\ runs[1].result.ok /\ runs[1].result.state.prefix = Basic(1)
  /\ runs[1].result.state.sn = 1
  /\ ~ runs[2].result.ok /\ runs[2].result.code = "Verify"
  /\ cells[acc_of(2)].ok = FALSE

\* The kind of attachment element the frame of a given type is followed by.
ElementFor(t) == IF t = "rct" THEN "couplet" ELSE "sig"

\* The input starts with a frame, a count code "-A" of n and n tokens of the
\* given kind.
Counted(inp, kind) ==
  /\ Len(inp) >= 2 /\ inp[1].tok = "frame" /\ inp[2].tok = "count"
  /\ inp[2].code = "-A" /\ inp[2].n >= 0
  /\ Len(inp) >= 2 + inp[2].n
  /\ \A j \in 3..(2 + inp[2].n) : inp[j].tok = kind

\* C18: signed_message reads the attachment the type of the frame calls for:
\* a count code and that many couplets after an Rct frame, giving
\* Deserialized::Rct; a count code and that many attached signatures after a
\* Vrc frame, giving Deserialized::Vrc, and after a key event (icp, rot, ixn,
\* dip, drt), giving Deserialized::Event with the raw bytes of the frame.
C18_Dispatch ==
  (input # <<>> /\ Head(input).tok = "frame") =>
    LET f == Head(input).raw
        m == signed_message(input)
        kind == ElementFor(f.body.t)
    IN  /\ m.res = "Ok" <=> Counted(input, kind)
        /\ m.res = "Ok" =>
             LET elems == SubSeq(input, 3, 2 + input[2].n)
             IN  /\ m.rest = SubSeq(input, 3 + input[2].n, Len(input))
                 /\ f.body.t = "rct" =>
                      m.out = [kind |-> "Rct", body |-> f.body, couplets |-> elems]
                 /\ f.body.t = "vrc" =>
                      m.out = [kind |-> "Vrc", event_message |-> f.body,
                               signatures |-> elems]
                 /\ f.body.t \in {"icp", "rot", "ixn", "dip", "drt"} =>
                      m.out = [kind |-> "Event",
                               event |-> [event |-> Deserialize(f), raw |-> f],
                               signatures |-> elems]
                 /\ f.body.t \in {"rct", "vrc", "icp", "rot", "ixn", "dip", "drt"}

\* A key event, an Rct with its couplet and a Vrc with its signature were
\* read from one stream.
C18_Witness ==
  /\ Len(log) = 3
  /\ log[1].msg.kind = "Event" /\ log[1].msg.event.raw = s[1].raw
  /\ log[2].msg.kind = "Rct" /\ Len(log[2].msg.couplets) = 1
  /\ log[3].msg.kind = "Vrc" /\ Len(log[3].msg.signatures) = 1

(***************************************************************************)
(* KeySpec: the key manager CryptoBox (src/src/signer/mod.rs)              *)
(***************************************************************************)

\* Bounds: the key pairs the generator can return, the key managers built by
\* rotation, the calls of the generator.
MaxKeyPairs == 3
MaxRotations == 2
MaxCalls == 5

PublicKey(k) == [pub |-> k]
PrivateKey(k) == [priv |-> k]

\* ed.keypair(None): a key pair the random generator returns, or an error.
KeyPair(k) == [ok |-> TRUE, pub_key |-> PublicKey(k), priv_key |-> PrivateKey(k)]
KeyError == [ok |-> FALSE]
KeyPairs == {KeyPair(k) : k \in 1..MaxKeyPairs}

\* Signer { priv_key, pub_key }
Signer(priv_key, pub_key) == [priv_key |-> priv_key, pub_key |-> pub_key]

\* CryptoBox { signer, next_priv_key, next_pub_key }
CryptoBox(signer, next_priv_key, next_pub_key) ==
  [signer |-> signer, next_priv_key |-> next_priv_key, next_pub_key |-> next_pub_key]

\* CryptoBox::new: a signer of one fresh key pair and a second fresh pair as
\* the next key.
CryptoBox_new(first, second) ==
  CryptoBox(Signer(first.priv_key, first.pub_key), second.priv_key, second.pub_key)

\* Signer::sign: an Ed25519 signature of msg with the signer's private key.
Signer_sign(signer, msg) == [with |-> signer.priv_key, over |-> msg]

\* KeyManager::sign, public_key, next_pub_key
sign(m, msg) == Signer_sign(m.signer, msg)
public_key(m) == m.signer.pub_key
next_pub_key(m) == m.next_pub_key

\* A rotation that keeps the signer and replaces the next key only.
rotate_keeps_signer(m, fresh) == CryptoBox(m.signer, fresh.priv_key, fresh.pub_key)

\* KeyManager::rotate: a new CryptoBox whose signer holds the next key of
\* this one and whose next key is the fresh pair.
rotate(m, fresh) ==
  CryptoBox(Signer(m.next_priv_key, m.next_pub_key), fresh.priv_key, fresh.pub_key)

\* What rotate(&self) leaves of the manager it is called on: all of it.
rotate_self(m) == m

\* A signature verifies under a public key: it was made with the private
\* key of the same pair.
Verifies(pub_key, msg, sig) == sig.over = msg /\ sig.with.priv = pub_key.pub

Messages == {"m1"}

\* An entry of the history of managers: the box, the manager it was rotated
\* from (0: built by new) as it was before the call, and the generator call
\* that made its next key.
Built(box, from, before, call) ==
  [box |-> box, from |-> from, before |-> before, call |-> call]

KeyInit ==
  /\ \E first \in KeyPairs : \E second \in KeyPairs :
       /\ generated = <<first, second>>
       /\ managers = <<Built(CryptoBox_new(first, second), 0, KeyError, 2)>>
  /\ signed = {}
  /\ StreamIdle /\ AttachIdle /\ ParIdle

\* m_i.rotate() succeeds: the generator returns a pair, a new manager is built.
Rotate ==
  \E i \in 1..Len(managers) : \E fresh \in KeyPairs :
    /\ Len(managers) <= MaxRotations
    /\ Len(generated) < MaxCalls
    /\ generated' = Append(generated, fresh)
    /\ managers' = Append([managers EXCEPT ![i].box = rotate_self(managers[i].box)],
                          Built(rotate(managers[i].box, fresh), i, managers[i].box,
                                Len(generated) + 1))
    /\ UNCHANGED <<signed, stream_vars, attach_vars, par_vars>>

\* m_i.rotate() fails: the generator returns an error (CryptoError), no
\* manager is built.
RotateFails ==
  /\ Len(generated) < MaxCalls
  /\ generated' = Append(generated, KeyError)
  /\ UNCHANGED <<managers, signed, stream_vars, attach_vars, par_vars>>

\* m_i.sign(msg)
Sign ==
  \E i \in 1..Len(managers) : \E msg \in Messages :
    /\ signed' = signed \cup {[by |-> i, msg |-> msg, sig |-> sign(managers[i].box, msg)]}
    /\ UNCHANGED <<managers, generated, stream_vars, attach_vars, par_vars>>

KeyNext == Rotate \/ RotateFails \/ Sign

KeySpec == KeyInit /\ [][KeyNext]_vars

\* C19: along successful rotations m_{i+1} = m_i.rotate(), the current public
\* key of m_{i+1} is the next public key m_i announced, m_{i+1} signs with the
\* private key of that public key, its next key is a pair the generator made
\* in that rotation, and m_i is as it was before the call.
C19_RotationChain ==
  /\ \A j \in 1..Len(managers) :
       LET new == managers[j]
       IN  /\ new.from # 0 =>
                /\ new.from < j
                /\ public_key(new.box) = next_pub_key(managers[new.from].box)
                /\ managers[new.from].box = new.before
                /\ new.call > managers[new.from].call
           /\ new.call \in 1..Len(generated) /\ generated[new.call].ok
           /\ next_pub_key(new.box) = generated[new.call].pub_key
           /\ new.box.next_priv_key = generated[new.call].priv_key
           /\ \A k \in 1..Len(managers) : k # j => managers[k].call # new.call
  /\ \A sg \in signed :
       /\ Verifies(public_key(managers[sg.by].box), sg.msg, sg.sig)
       /\ managers[sg.by].from # 0 =>
            Verifies(next_pub_key(managers[managers[sg.by].from].box), sg.msg, sg.sig)

\* m_0 was rotated twice in a row, the three managers hold three different
\* current keys, and each has signed.
C19_Witness ==
  /\ Len(managers) = 3 /\ managers[2].from = 1 /\ managers[3].from = 2
  /\ public_key(managers[1].box) # public_key(managers[2].box)
  /\ public_key(managers[2].box) # public_key(managers[3].box)
  /\ public_key(managers[1].box) # public_key(managers[3].box)
  /\ \A i \in 1..3 : \E sg \in signed : sg.by = i

\* The input starts with a unit that fails to parse with a recoverable
\* error: bytes no codec reads as a frame, or a frame whose attachment does
\* not start with "-A".
Unrecognised(inp) ==
  /\ inp # <<>>
  /\ \/ Head(inp).tok = "junk"
     \/ /\ Head(inp).tok = "frame" /\ Len(inp) >= 2
        /\ inp[2].tok = "count" /\ inp[2].code # "-A"

IsSuffix(rest, all) ==
  Len(rest) <= Len(all) /\ rest = SubSeq(all, Len(all) - Len(rest) + 1, Len(all))

\* C20: signed_event_stream_validate needs one message it can parse: it fails
\* on an empty stream and when the first unit does not parse. After one or
\* more messages a unit that fails to parse with a recoverable error does not
\* make the result an error: the fold stops there and returns what it has
\* accumulated with the unparsed remainder, which starts where that unit
\* starts.
C20_NeedsOneMessage ==
  pc = "done" =>
    /\ log = <<>> => ~ result.ok
    /\ (s = <<>> \/ Unrecognised(s)) => log = <<>> /\ result = Err("Error", "Many1")
    /\ (log # <<>> /\ (input = <<>> \/ Unrecognised(input))) =>
         /\ result = IF log[Len(log)].post.ok
                       THEN Done(input, log[Len(log)].post.state)
                       ELSE Err("Error", log[Len(log)].post.err)
         /\ result.ok <=> \A j \in Idx : log[j].post.ok
    /\ result.ok =>
         /\ log # <<>>
         /\ result.rest = input /\ IsSuffix(input, s)
         /\ signed_message(input).res = "Error"
         /\ result.state = acc.state

\* After two messages the fold stopped at a frame whose attachment does not
\* start with "-A" and returned the state with that unit as the remainder.
C20_Witness ==
  /\ pc = "done" /\ Len(log) = 2 /\ result.ok
  /\ Unrecognised(input) /\ Head(input).tok = "frame"
  /\ result.rest = input /\ Len(result.rest) >= 3
  /\ result.state.sn = 1

====
